---- MODULE Spec2Model ----
(***************************************************************************)
(* Model of pytabular.Tabular (src/pytabular/pytabular.py) and of the      *)
(* table wrappers (src/pytabular/table.py).                                *)
(*                                                                         *)
(* The program is single-threaded and synchronous: every method of Tabular *)
(* is one action.  A method is an operator over a record `s` that carries  *)
(* the fields of the Tabular object, the native model tree the object is   *)
(* bound to, the calls made so far (s.log) and the exception being raised  *)
(* (s.err).  A step that finds s.err set does nothing, as the statements   *)
(* after a raise do nothing.                                               *)
(*                                                                         *)
(* A call into the wrapped .NET library may raise (s.failing names the      *)
(* native call that raises during the operation, None when none does).     *)
(* Attribute lookups are decided by what the object has: the Tabular       *)
(* object what its class defines, a native object the members of the .NET  *)
(* library; a name neither has raises AttributeError.                      *)
(* Native models are taken without roles (Model.Roles enumerates nothing). *)
(***************************************************************************)
EXTENDS Integers, Sequences, FiniteSets, TLC

VARIABLES
    Server,           \* native Server: [Databases, Connected]
    Model,            \* native model tree: [Tables, Relationships]
    constructed,      \* a Tabular object exists
    Catalog,          \* self.Catalog
    Database,         \* self.Database (the database's name)
    Tables,           \* self.Tables        (wrappers: references to native objects)
    Relationships,    \* self.Relationships
    Partitions,       \* self.Partitions
    Columns,          \* self.Columns
    Measures,         \* self.Measures
    Cultures,         \* self.Cultures
    Effective_Users,  \* self.Effective_Users
    connections,      \* users of the Connection objects created so far, in order
    detached,         \* native tables removed from the model that a wrapper still holds
    log,              \* calls made by the last operation, in order
    ret               \* outcome of the last operation

vars == <<Server, Model, constructed, Catalog, Database, Tables,
          Relationships, Partitions, Columns, Measures, Cultures,
          Effective_Users, connections, detached, log, ret>>

\* Python's None where a string is expected (a catalog, a user, no exception).
None == "<None>"
\* Python's None where an object is expected.
NoneObj == [type |-> "NoneType"]
True == [type |-> "bool", value |-> TRUE]

(***************************** bounds **************************************)
\* Most Connection objects created over a run.
MaxConnections == 3

(************************* sequence helpers ********************************)
RECURSIVE Flatten(_)
\* [x for xs in seqs for x in xs]
Flatten(seqs) ==
    IF seqs = <<>> THEN <<>> ELSE Head(seqs) \o Flatten(Tail(seqs))

\* The set of the elements of seq.
Range(seq) == {seq[i] : i \in 1..Len(seq)}

\* Index of the first element of seq with Name = name, 0 when there is none
\* (the native collections' Find returns the object or null).
FindIndex(seq, name) ==
    IF \E i \in 1..Len(seq) : seq[i].Name = name
    THEN CHOOSE i \in 1..Len(seq) :
            /\ seq[i].Name = name
            /\ \A j \in 1..(i - 1) : seq[j].Name # name
    ELSE 0

(****************************** strings ************************************)
EndsWith(str, suffix) ==
    /\ Len(str) >= Len(suffix)
    /\ SubSeq(str, Len(str) - Len(suffix) + 1, Len(str)) = suffix

\* logic_utils.remove_suffix: the string without the suffix when it ends with it.
remove_suffix(input_string, suffix) ==
    IF Len(suffix) > 0 /\ EndsWith(input_string, suffix)
    THEN SubSeq(input_string, 1, Len(input_string) - Len(suffix))
    ELSE input_string

\* str(x) of an f-string, for a string or None.
Str(x) == IF x = None THEN "None" ELSE x

(*************************** native objects ********************************)
\* Microsoft.AnalysisServices.Tabular objects, as far as the code reads them.
Column(name, type, source, datatype) ==
    [Name |-> name, Type |-> type, SourceColumn |-> source, DataType |-> datatype]

Named(name) == [Name |-> name]

MPartition(name, expression) ==
    [Name |-> name, SourceType |-> "M", Expression |-> expression]

NewTable(id, name, columns, partitions, measures, hierarchies) ==
    [id |-> id, Name |-> name, Columns |-> columns, Partitions |-> partitions,
     Measures |-> measures, Hierarchies |-> hierarchies]

\* A relationship holds its two columns by reference: <<table id, column index>>.
NewRelationship(id, name, from, to) ==
    [id |-> id, Name |-> name, FromColumn |-> from, ToColumn |-> to]

TableById(model, id) ==
    model.Tables[CHOOSE i \in 1..Len(model.Tables) : model.Tables[i].id = id]

\* relationship.FromTable.Name, relationship.ToTable.Name, relationship.ToColumn.Name
FromTableName(model, r) == TableById(model, r.FromColumn[1]).Name
ToTableName(model, r) == TableById(model, r.ToColumn[1]).Name
FromColumnName(model, r) == TableById(model, r.FromColumn[1]).Columns[r.FromColumn[2]].Name
ToColumnName(model, r) == TableById(model, r.ToColumn[1]).Columns[r.ToColumn[2]].Name

TableNames(model) == {model.Tables[i].Name : i \in 1..Len(model.Tables)}
RelationshipNames(model) ==
    {model.Relationships[i].Name : i \in 1..Len(model.Relationships)}

\* The models a server may hold when the program connects.
TableA ==
    NewTable(1, "A",
             <<Column("RowNumber", "RowNumber", "", "Int64"),
               Column("c1", "Data", "c1", "Int64")>>,
             <<MPartition("p", "src")>>, <<Named("m")>>, <<Named("h")>>)

TableB ==
    NewTable(2, "B",
             <<Column("k", "Data", "k", "Int64"), Column("k2", "Data", "k2", "Int64")>>,
             <<MPartition("q", "src")>>, <<>>, <<>>)

EmptyModel == [Tables |-> <<>>, Relationships |-> <<>>, Cultures |-> <<>>]

SalesModel ==
    [Tables |-> <<TableA, TableB>>,
     Relationships |-> <<NewRelationship(3, "R1", <<1, 2>>, <<2, 1>>),
                         NewRelationship(4, "R2", <<2, 2>>, <<1, 2>>)>>,
     Cultures |-> <<Named("en-US")>>]

\* The servers the program may connect to: the databases each enumerates, and the
\* model of the database the program binds to.
Servers ==
    { [Databases |-> <<>>, Model |-> EmptyModel],
      [Databases |-> <<"db1">>, Model |-> EmptyModel],
      [Databases |-> <<"db1", "db2">>, Model |-> SalesModel] }

\* The members of the native objects the code reaches for: those of the .NET library
\* under their own names.  The code spells two names the library does not have, find
\* (on a collection) and save_changes (on the Model).
NativeMembers ==
    {"Connect", "Disconnect", "Reconnect", "Refresh", "SaveChanges", "GetEnumerator",
     "Find", "Add", "Remove", "Clone", "RequestRename", "get_Name",
     "set_ToColumn", "set_FromColumn", "set_SourceColumn", "set_DataType",
     "set_Source", "set_Expression"}

HasMember(name) == name \in NativeMembers

(************************ the state an operation runs on *******************)
\* s: the object's fields and its environment, threaded through the statements.
Self(failing) ==
    [Server |-> Server, Model |-> Model, Catalog |-> Catalog, Database |-> Database,
     Tables |-> Tables, Relationships |-> Relationships, Partitions |-> Partitions,
     Columns |-> Columns, Measures |-> Measures, Cultures |-> Cultures,
     Effective_Users |-> Effective_Users, connections |-> connections,
     detached |-> detached,
     log |-> <<>>, err |-> None, value |-> NoneObj, failing |-> failing]

Event(call, arg) == [call |-> call, arg |-> arg]

\* A statement of the repository's own code that is worth a line in the log.
Enter(s, call, arg) ==
    IF s.err # None THEN s ELSE [s EXCEPT !.log = Append(@, Event(call, arg))]

\* A call into the native runtime: logged, and it raises when it is the failing one.
NativeCall(s, call, arg) ==
    IF s.err # None THEN s
    ELSE IF s.failing = call
    THEN [s EXCEPT !.log = Append(@, Event(call, arg)), !.err = "NativeError"]
    ELSE [s EXCEPT !.log = Append(@, Event(call, arg))]

Raise(s, e) == IF s.err # None THEN s ELSE [s EXCEPT !.err = e]

Return(s, v) == IF s.err # None THEN s ELSE [s EXCEPT !.value = v]

\* Identities in use: by the native model, or still referred to by a wrapper.
UsedIds(s) ==
    {s.Model.Tables[i].id : i \in 1..Len(s.Model.Tables)}
    \cup {s.Model.Relationships[i].id : i \in 1..Len(s.Model.Relationships)}
    \cup {s.Tables[i].obj : i \in 1..Len(s.Tables)}
    \cup Range(s.Relationships)

\* The identity of the k-th native object created from state s.
NewId(s, k) ==
    LET free == (1..(Cardinality(UsedIds(s)) + k)) \ UsedIds(s)
    IN  CHOOSE n \in free : Cardinality({m \in free : m < n}) = k - 1

(************************* native collections ******************************)
\* Model.Tables.Add: the native engine keeps table names unique.
Tables_Add(s, table) ==
    LET s1 == NativeCall(s, "Tables.Add", table.Name)
    IN  IF s1.err # None THEN s1
        ELSE IF table.Name \in TableNames(s1.Model) THEN Raise(s1, "NativeError")
        ELSE [s1 EXCEPT !.Model.Tables = Append(@, table)]

\* Model.Relationships.Add: the native engine keeps relationship names unique.
Relationships_Add(s, relationship) ==
    LET s1 == NativeCall(s, "Relationships.Add", relationship.Name)
    IN  IF s1.err # None THEN s1
        ELSE IF relationship.Name \in RelationshipNames(s1.Model)
        THEN Raise(s1, "NativeError")
        ELSE [s1 EXCEPT !.Model.Relationships = Append(@, relationship)]

\* Model.Tables.Remove: the table leaves the model; a wrapper that holds it keeps it.
Tables_Remove(s, id) ==
    LET s1 == NativeCall(s, "Tables.Remove", TableById(s.Model, id).Name)
    IN  IF s1.err # None THEN s1
        ELSE [s1 EXCEPT !.Model.Tables = SelectSeq(@, LAMBDA t : t.id # id),
                        !.detached =
                            IF \E i \in 1..Len(s1.Tables) : s1.Tables[i].obj = id
                            THEN Append(@, TableById(s.Model, id)) ELSE @]

\* Model.Relationships.Remove
Relationships_Remove(s, relationship) ==
    LET s1 == NativeCall(s, "Relationships.Remove", relationship.Name)
    IN  IF s1.err # None THEN s1
        ELSE [s1 EXCEPT !.Model.Relationships =
                            SelectSeq(@, LAMBDA r : r.id # relationship.id)]

\* item.RequestRename(name) on the child at position i of a table's collection.
RequestRenameChild(s, id, kind, i, name) ==
    [s EXCEPT !.Model.Tables =
        [j \in 1..Len(@) |->
            IF @[j].id = id THEN [@[j] EXCEPT ![kind][i].Name = name] ELSE @[j]]]

\* table.RequestRename(name)
RequestRenameTable(s, id, name) ==
    [s EXCEPT !.Model.Tables =
        [j \in 1..Len(@) |-> IF @[j].id = id THEN [@[j] EXCEPT !.Name = name] ELSE @[j]]]

\* relationship.RequestRename(name)
RequestRenameRelationship(s, id, name) ==
    [s EXCEPT !.Model.Relationships =
        [j \in 1..Len(@) |-> IF @[j].id = id THEN [@[j] EXCEPT !.Name = name] ELSE @[j]]]

(***************************** table.py ***********************************)
\* PyTable.__init__: the wrapper of a native table and of its partitions, columns
\* and measures, each a reference <<table id, position>>.
PyTable(table) ==
    [obj |-> table.id,
     Partitions |-> [i \in 1..Len(table.Partitions) |-> <<table.id, i>>],
     Columns |-> [i \in 1..Len(table.Columns) |-> <<table.id, i>>],
     Measures |-> [i \in 1..Len(table.Measures) |-> <<table.id, i>>]]

(**************************** pytabular.py *********************************)
\* The attributes a Tabular object has: those __init__ and reload_model_info assign
\* and the methods the class defines.  Any other name is looked up on the wrapped
\* native Model, which has none of the repository's names: AttributeError.
TabularAttributes ==
    {"Server", "Catalog", "Database", "CompatibilityLevel", "CompatibilityMode",
     "Model", "Adomd", "Effective_Users", "PyRefresh",
     "Tables", "Relationships", "Partitions", "Columns", "Measures", "Cultures",
     "reload_model_info", "is_process", "disconnect", "reconnect", "refresh",
     "save_changes", "backup_table", "revert_table", "query", "analyze_bpa",
     "create_table"}

HasAttr(name) == name \in TabularAttributes

\* reload_model_info, were the columns left as they were.
reload_model_info_keeping_columns(s) ==
    LET s0 == Enter(s, "reload_model_info", "")
        s1 == NativeCall(s0, "Database.Refresh", "")
        tables == [i \in 1..Len(s1.Model.Tables) |-> PyTable(s1.Model.Tables[i])]
    IN  IF s1.err # None THEN s1
        ELSE [s1 EXCEPT
                !.Tables = tables,
                !.Relationships = [i \in 1..Len(s1.Model.Relationships) |->
                                       s1.Model.Relationships[i].id],
                !.Partitions = Flatten([i \in 1..Len(tables) |-> tables[i].Partitions]),
                !.Measures = Flatten([i \in 1..Len(tables) |-> tables[i].Measures]),
                !.Cultures = [i \in 1..Len(s1.Model.Cultures) |->
                                  s1.Model.Cultures[i].Name],
                !.detached = <<>>,
                !.value = True]

\* Tabular.reload_model_info
reload_model_info(s) ==
    LET s0 == Enter(s, "reload_model_info", "")
        s1 == NativeCall(s0, "Database.Refresh", "")
        tables == [i \in 1..Len(s1.Model.Tables) |-> PyTable(s1.Model.Tables[i])]
    IN  IF s1.err # None THEN s1
        ELSE [s1 EXCEPT
                !.Tables = tables,
                !.Relationships = [i \in 1..Len(s1.Model.Relationships) |->
                                       s1.Model.Relationships[i].id],
                !.Partitions = Flatten([i \in 1..Len(tables) |-> tables[i].Partitions]),
                !.Columns = Flatten([i \in 1..Len(tables) |-> tables[i].Columns]),
                !.Measures = Flatten([i \in 1..Len(tables) |-> tables[i].Measures]),
                !.Cultures = [i \in 1..Len(s1.Model.Cultures) |->
                                  s1.Model.Cultures[i].Name],
                \* the wrappers replaced were the last to hold the removed tables
                !.detached = <<>>,
                !.value = True]

\* Tabular.disconnect
disconnect(s) ==
    LET s1 == NativeCall(s, "Server.Disconnect", "")
    IN  IF s1.err # None THEN s1
        ELSE [s1 EXCEPT !.Server.Connected = FALSE, !.value = NoneObj]

\* Tabular.reconnect
reconnect(s) ==
    LET s1 == NativeCall(s, "Server.Reconnect", "")
    IN  IF s1.err # None THEN s1
        ELSE [s1 EXCEPT !.Server.Connected = TRUE, !.value = NoneObj]

\* property_changes, were the changes collected in reverse.
property_changes_reversed(property_changes_var) ==
    [i \in 1..Len(property_changes_var) |->
        LET change == property_changes_var[Len(property_changes_var) + 1 - i]
        IN  [new_value |-> change.NewValue, object |-> change.Object,
             original_value |-> change.OriginalValue,
             property_name |-> change.PropertyName,
             property_type |-> change.PropertyType]]

\* save_changes.property_changes: one named tuple per native change, in order.
property_changes(property_changes_var) ==
    [i \in 1..Len(property_changes_var) |->
        [new_value |-> property_changes_var[i].NewValue,
         object |-> property_changes_var[i].Object,
         original_value |-> property_changes_var[i].OriginalValue,
         property_name |-> property_changes_var[i].PropertyName,
         property_type |-> property_changes_var[i].PropertyType]]

\* save_changes, were it to reconnect whatever the server reports.
save_changes_reconnecting(s, model_save_results) ==
    LET s0 == Enter(s, "save_changes", "")
        s1 == reconnect(s0)
        s2 == NativeCall(s1, "Model.SaveChanges", model_save_results)
    IN  IF s2.err # None THEN s2
        ELSE IF model_save_results.Impact = NoneObj
        THEN Return(s2, NoneObj)
        ELSE Return(reload_model_info(s2),
                    [type |-> "changes",
                     property_changes |->
                         property_changes(model_save_results.Impact.PropertyChanges),
                     added_objects |-> model_save_results.Impact.AddedObjects,
                     added_subtree_roots |-> model_save_results.Impact.AddedSubtreeRoots,
                     removed_objects |-> model_save_results.Impact.RemovedObjects,
                     removed_subtree_Roots |->
                         model_save_results.Impact.RemovedSubtreeRoots,
                     xmla_results |-> model_save_results.XmlaResults])

\* save_changes, were the reload after the save left out.
save_changes_without_reload(s, model_save_results) ==
    LET s0 == Enter(s, "save_changes", "")
        s1 == IF s0.err = None /\ s0.Server.Connected = FALSE THEN reconnect(s0) ELSE s0
        s2 == NativeCall(s1, "Model.SaveChanges", model_save_results)
    IN  IF s2.err # None THEN s2
        ELSE IF model_save_results.Impact = NoneObj
        THEN Return(s2, NoneObj)
        ELSE Return(s2,
                    [type |-> "changes",
                     property_changes |->
                         property_changes(model_save_results.Impact.PropertyChanges),
                     added_objects |-> model_save_results.Impact.AddedObjects,
                     added_subtree_roots |-> model_save_results.Impact.AddedSubtreeRoots,
                     removed_objects |-> model_save_results.Impact.RemovedObjects,
                     removed_subtree_Roots |->
                         model_save_results.Impact.RemovedSubtreeRoots,
                     xmla_results |-> model_save_results.XmlaResults])

\* Tabular.save_changes; model_save_results is what the native SaveChanges returns.
save_changes(s, model_save_results) ==
    LET s0 == Enter(s, "save_changes", "")
        s1 == IF s0.err = None /\ s0.Server.Connected = FALSE THEN reconnect(s0) ELSE s0
        s2 == NativeCall(s1, "Model.SaveChanges", model_save_results)
    IN  IF s2.err # None THEN s2
        ELSE IF model_save_results.Impact = NoneObj
        THEN Return(s2, NoneObj)
        ELSE Return(reload_model_info(s2),
                    [type |-> "changes",
                     property_changes |->
                         property_changes(model_save_results.Impact.PropertyChanges),
                     added_objects |-> model_save_results.Impact.AddedObjects,
                     added_subtree_roots |-> model_save_results.Impact.AddedSubtreeRoots,
                     removed_objects |-> model_save_results.Impact.RemovedObjects,
                     removed_subtree_Roots |->
                         model_save_results.Impact.RemovedSubtreeRoots,
                     xmla_results |-> model_save_results.XmlaResults])

\* query.Connection(server, effective_user): a new native connection for the user.
Connection(s, effective_user) ==
    LET s1 == NativeCall(s, "Connection", effective_user)
    IN  IF s1.err # None THEN s1
        ELSE [s1 EXCEPT !.connections = Append(@, effective_user)]

\* Connection.query: the native result of the query on that connection.
Connection_query(s, conn, query_str, result) ==
    Return(NativeCall(s, "Connection.query", [connection |-> conn, query |-> query_str]),
           result)

\* matching_databases, were a connection without catalog not matched to any database.
matching_databases_by_name(databases, catalog) ==
    SelectSeq(databases, LAMBDA name : name = catalog)

\* Tabular.__init__, lines 68-72: the databases that match the catalog, in the
\* order the server enumerates them.
matching_databases(databases, catalog) ==
    SelectSeq(databases, LAMBDA name : name = catalog \/ catalog = None)

\* Tabular.__init__
Tabular__init__(s, connection_str) ==
    LET s0 == Enter(s, "__init__", connection_str)
        s1 == NativeCall(s0, "Server.Connect", connection_str)
        s2 == IF s1.err # None THEN s1
              ELSE [s1 EXCEPT !.Server.Connected = TRUE,
                              !.Catalog = connection_str.Catalog]
        \* try: [database for database in Databases if ...][0]
        s3 == NativeCall(s2, "Server.Databases.GetEnumerator", "")
        matching == matching_databases(s2.Server.Databases, s2.Catalog)
        s4 == IF s2.err # None THEN s2
              ELSE IF s3.err # None \/ Len(matching) = 0
              \* except Exception: raise Exception(err_msg)
              THEN [s3 EXCEPT !.err = "Unable to find Database... " \o Str(s2.Catalog)]
              ELSE [s3 EXCEPT !.Database = matching[1]]
        s5 == Connection(s4, None)
        s6 == IF s5.err # None THEN s5
              ELSE [s5 EXCEPT !.Effective_Users = <<>>]
    IN  Return(reload_model_info(s6), NoneObj)

\* Tabular.query
query(s, query_str, effective_user, result) ==
    LET s0 == Enter(s, "query", [query |-> query_str, user |-> effective_user])
        \* try: conn = self.effective_users[effective_user]
        found == HasAttr("effective_users")
                    /\ effective_user \in DOMAIN s0.Effective_Users
        \* except Exception: conn = Connection(...); self.effective_Users[...] = conn
        s1 == Connection(s0, effective_user)
        s2 == IF s1.err # None THEN s1
              ELSE IF HasAttr("effective_Users")
              THEN [s1 EXCEPT !.Effective_Users =
                        [u \in DOMAIN @ \cup {effective_user} |->
                            IF u = effective_user THEN Len(s1.connections) ELSE @[u]]]
              ELSE Raise(s1, "AttributeError")
    IN  IF s0.err # None THEN s0
        ELSE IF effective_user = None
        THEN Connection_query(s0, 1, query_str, result)
        ELSE IF found
        THEN Connection_query(s0, s0.Effective_Users[effective_user], query_str, result)
        ELSE Connection_query(s2, Len(s1.connections), query_str, result)

\* Tabular.is_process; jobs is what the DMV query returns.
is_process(s, jobs) ==
    LET s0 == Enter(s, "is_process", "")
        \* self.Query(...)
        s1 == IF HasAttr("Query")
              THEN query(s0, "select * from $SYSTEM.DISCOVER_JOBS", None, jobs)
              ELSE Raise(s0, "AttributeError")
        process == SelectSeq(jobs.rows, LAMBDA row : row.JOB_DESCRIPTION = "Process")
    IN  Return(s1, [type |-> "bool", value |-> Len(process) > 0])

\* PyRefresh(model, object, ...).run(): the native refresh of the object.
PyRefresh_run(s, object, result) ==
    Return(NativeCall(s, "PyRefresh.run", object), result)

\* Tabular.refresh
refresh(s, object, result) ==
    LET s0 == Enter(s, "refresh", object)
    IN  IF HasAttr("PyRefresh") THEN PyRefresh_run(s0, object, result)
        ELSE Raise(s0, "AttributeError")

\* backup_table.rename: every item gets the suffix.
rename(items) ==
    [i \in 1..Len(items) |-> [items[i] EXCEPT !.Name = @ \o "_backup"]]

\* backup_table, lines 288-299: point each cloned relationship at the clone table's
\* column and add it to the model.
RECURSIVE switch_and_add(_, _, _)
switch_and_add(s, table, relationships) ==
    IF relationships = <<>> \/ s.err # None THEN s
    ELSE
    LET relationship == Head(relationships)
        original == remove_suffix(table.Name, "_backup")
        switched ==
            IF ToTableName(s.Model, relationship) = original
            THEN [relationship EXCEPT !.ToColumn =
                    <<table.id,
                      FindIndex(table.Columns,
                                ToColumnName(s.Model, relationship) \o "_backup")>>]
            ELSE IF FromTableName(s.Model, relationship) = original
            THEN [relationship EXCEPT !.FromColumn =
                    <<table.id,
                      FindIndex(table.Columns,
                                FromColumnName(s.Model, relationship) \o "_backup")>>]
            ELSE relationship
        at_table == \/ ToTableName(s.Model, relationship) = original
                    \/ FromTableName(s.Model, relationship) = original
    IN  \* table.Columns.find(...)
        IF at_table /\ ~HasMember("find") THEN Raise(s, "AttributeError")
        ELSE switch_and_add(Relationships_Add(s, switched), table, Tail(relationships))

\* backup_table.clone_role_permissions: the model has no roles, nothing is cloned.
clone_role_permissions(s) == s

\* Tabular.backup_table
backup_table(s, table_str, model_save_results, refresh_result) ==
    LET s0 == Enter(s, "backup_table", table_str)
        found == FindIndex(s0.Model.Tables, table_str)
        clone == [s0.Model.Tables[found] EXCEPT !.id = NewId(s0, 1)]
        table == [clone EXCEPT !.Columns = rename(@), !.Partitions = rename(@),
                               !.Measures = rename(@), !.Hierarchies = rename(@),
                               !.Name = @ \o "_backup"]
        s1 == Tables_Add(s0, table)
        matching == SelectSeq(s1.Model.Relationships, LAMBDA r :
                        \/ ToTableName(s1.Model, r) = remove_suffix(table.Name, "_backup")
                        \/ FromTableName(s1.Model, r) = remove_suffix(table.Name, "_backup"))
        relationships ==
            rename([i \in 1..Len(matching) |-> [matching[i] EXCEPT !.id = NewId(s1, i)]])
        s2 == switch_and_add(s1, table, relationships)
        s3 == clone_role_permissions(s2)
        s4 == reload_model_info(s3)
        s5 == refresh(s4, table.Name, refresh_result)
        s6 == save_changes(s5, model_save_results)
    IN  IF s0.err # None THEN s0
        \* self.Model.Tables.find
        ELSE IF ~HasMember("find") THEN Raise(s0, "AttributeError")
        \* None.Clone()
        ELSE IF found = 0 THEN Raise(s0, "AttributeError")
        ELSE IF s1.err # None THEN s1
        ELSE Return(s6, True)

\* revert_table.dename over the children of one kind of the backup table: each is
\* renamed, then save_changes is looked up on the native Model.
RECURSIVE dename(_, _, _, _)
dename(s, id, kind, positions) ==
    IF positions = <<>> \/ s.err # None THEN s
    ELSE
    LET i == Head(positions)
        name == TableById(s.Model, id)[kind][i].Name
        s1 == RequestRenameChild(s, id, kind, i, remove_suffix(name, "_backup"))
        \* self.Model.save_changes()
        s2 == IF HasMember("save_changes") THEN NativeCall(s1, "Model.save_changes", "")
              ELSE Raise(s1, "AttributeError")
    IN  dename(s2, id, kind, Tail(positions))

\* revert_table.dename over relationships.
RECURSIVE dename_relationships(_, _)
dename_relationships(s, relationships) ==
    IF relationships = <<>> \/ s.err # None THEN s
    ELSE
    LET r == Head(relationships)
        s1 == RequestRenameRelationship(s, r.id, remove_suffix(r.Name, "_backup"))
        \* self.Model.save_changes()
        s2 == IF HasMember("save_changes") THEN NativeCall(s1, "Model.save_changes", "")
              ELSE Raise(s1, "AttributeError")
    IN  dename_relationships(s2, Tail(relationships))

\* revert_table, lines 404-411
RECURSIVE remove_relationships(_, _)
remove_relationships(s, relationships) ==
    IF relationships = <<>> \/ s.err # None THEN s
    ELSE remove_relationships(Relationships_Remove(s, Head(relationships)),
                              Tail(relationships))

\* revert_table.remove_role_permissions: the model has no roles.
remove_role_permissions(s) == s

Positions(seq) == [i \in 1..Len(seq) |-> i]

\* Tabular.revert_table
revert_table(s, table_str, model_save_results) ==
    LET s0 == Enter(s, "revert_table", table_str)
        m == s0.Model
        main_i == FindIndex(m.Tables, table_str)
        backup_i == FindIndex(m.Tables, table_str \o "_backup")
        main == m.Tables[main_i]
        backup == m.Tables[backup_i]
        main_relationships == SelectSeq(m.Relationships, LAMBDA r :
                                \/ ToTableName(m, r) = main.Name
                                \/ FromTableName(m, r) = main.Name)
        backup_relationships == SelectSeq(m.Relationships, LAMBDA r :
                                \/ ToTableName(m, r) = backup.Name
                                \/ FromTableName(m, r) = backup.Name)
        s1 == remove_relationships(s0, main_relationships)
        s2 == IF s1.err # None THEN s1 ELSE remove_role_permissions(Tables_Remove(s1, main.id))
        data_columns == SelectSeq(Positions(backup.Columns),
                                  LAMBDA i : backup.Columns[i].Type # "RowNumber")
        s3 == dename(s2, backup.id, "Columns", data_columns)
        s4 == dename(s3, backup.id, "Partitions", Positions(backup.Partitions))
        s5 == dename(s4, backup.id, "Measures", Positions(backup.Measures))
        s6 == dename(s5, backup.id, "Hierarchies", Positions(backup.Hierarchies))
        s7 == dename_relationships(s6, backup_relationships)
        s8 == IF s7.err # None THEN s7
              ELSE RequestRenameTable(s7, backup.id, remove_suffix(backup.Name, "_backup"))
        s9 == save_changes(s8, model_save_results)
    IN  IF s0.err # None THEN s0
        \* self.Model.Tables.find
        ELSE IF ~HasMember("find") THEN Raise(s0, "AttributeError")
        \* main.Name / backup.Name of None inside the comprehensions, line 412 at the latest
        ELSE IF main_i = 0 THEN Raise(s0, "AttributeError")
        ELSE IF backup_i = 0 /\ Len(m.Relationships) > 0 THEN Raise(s0, "AttributeError")
        \* backup.Columns of None, after the original table is removed
        ELSE IF backup_i = 0 THEN Raise(s2, "AttributeError")
        ELSE Return(s9, True)

\* logic_utils.pandas_datatype_to_tabular_datatype: dtype kind -> native DataType
pandas_datatype_to_tabular_datatype(kind) ==
    CASE kind \in {"O", "S", "U"} -> "String"
      [] kind \in {"M", "m"} -> "DateTime"
      [] kind = "b" -> "Boolean"
      [] kind \in {"i", "u"} -> "Int64"
      [] kind \in {"f", "c"} -> "Double"

RECURSIVE Join(_, _)
Join(strings, sep) ==
    IF strings = <<>> THEN ""
    ELSE IF Len(strings) = 1 THEN strings[1]
    ELSE strings[1] \o sep \o Join(Tail(strings), sep)

\* logic_utils.pd_dataframe_to_m_expression: the M table constructor over the columns.
pd_dataframe_to_m_expression(df) ==
    "let Source=#table({"
        \o Join([i \in 1..Len(df.columns) |-> "\"" \o df.columns[i] \o "\""], ",")
        \o "},{" \o df.rows \o "}) in Source"

\* create_table, were the new table refreshed before the model is saved.
create_table_refresh_first(s, df, table_name, model_save_results, refresh_result) ==
    LET s0 == Enter(s, "create_table", table_name)
        columns == [i \in 1..Len(df.columns) |->
                       Column(df.columns[i], "Data", df.columns[i],
                              pandas_datatype_to_tabular_datatype(df.kinds[i]))]
        partition == MPartition("Partition", pd_dataframe_to_m_expression(df))
        new_table == NewTable(NewId(s0, 1), table_name, columns, <<partition>>, <<>>, <<>>)
        s1 == Tables_Add(s0, new_table)
        s2 == refresh(s1, new_table.Name, refresh_result)
        s3 == save_changes(s2, model_save_results)
        s4 == reload_model_info(s3)
    IN  Return(s4, True)

\* Tabular.create_table
create_table(s, df, table_name, model_save_results, refresh_result) ==
    LET s0 == Enter(s, "create_table", table_name)
        columns == [i \in 1..Len(df.columns) |->
                       Column(df.columns[i], "Data", df.columns[i],
                              pandas_datatype_to_tabular_datatype(df.kinds[i]))]
        partition == MPartition("Partition", pd_dataframe_to_m_expression(df))
        new_table == NewTable(NewId(s0, 1), table_name, columns, <<partition>>, <<>>, <<>>)
        s1 == Tables_Add(s0, new_table)
        s2 == save_changes(s1, model_save_results)
        s3 == reload_model_info(s2)
        s4 == refresh(s3, new_table.Name, refresh_result)
    IN  Return(s4, True)

(************************ table.py, the methods ***************************)
\* table.get_Name() through a wrapper: the name of the native table it holds, in the
\* model or removed from it.
get_Name(s, id) ==
    IF \E i \in 1..Len(s.Model.Tables) : s.Model.Tables[i].id = id
    THEN TableById(s.Model, id).Name
    ELSE s.detached[CHOOSE i \in 1..Len(s.detached) : s.detached[i].id = id].Name

\* str.replace(old, new) for a one-character old: every occurrence is replaced.
RECURSIVE replace(_, _, _)
replace(str, old, new) ==
    IF Len(str) = 0 THEN ""
    ELSE (IF SubSeq(str, 1, 1) = old THEN new ELSE SubSeq(str, 1, 1))
            \o replace(SubSeq(str, 2, Len(str)), old, new)

\* PyTables.Query_All, lines 118-121: one ROW(...) line per table, in order.
RECURSIVE Query_All_rows(_, _)
Query_All_rows(table_names, query_function) ==
    IF table_names = <<>> THEN ""
    ELSE LET table_name == Head(table_names)
             dax_table_identifier == "'" \o table_name \o "'"
         IN  "ROW(\"Table\",\"" \o table_name \o "\",\"" \o query_function \o "\","
                \o replace(query_function, "_", dax_table_identifier) \o "),\n"
                \o Query_All_rows(Tail(table_names), query_function)

\* PyTables.Query_All, lines 117-122: the query string, its last two characters
\* cut and ")" put in their place.
Query_All_query_str(table_names, query_function) ==
    LET query_str == "EVALUATE UNION(\n" \o Query_All_rows(table_names, query_function)
    IN  SubSeq(query_str, 1, Len(query_str) - 2) \o ")"

\* PyTables.Query_All on self.Tables; result is what the query would return.
Query_All(s, query_function, result) ==
    LET s0 == Enter(s, "Query_All", query_function)
        table_names == [i \in 1..Len(s0.Tables) |-> get_Name(s0, s0.Tables[i].obj)]
        query_str == Query_All_query_str(table_names, query_function)
    IN  \* self[0]
        IF Len(s0.Tables) = 0 THEN Raise(s0, "IndexError")
        \* self[0].Model.Query(query_str)
        ELSE IF HasAttr("Query") THEN query(s0, query_str, None, result)
        ELSE Raise(s0, "AttributeError")

\* PyTable.Refresh of the wrapper at position i of self.Tables.
PyTable_Refresh(s, i, result) ==
    LET s0 == Enter(s, "PyTable.Refresh", i)
    IN  \* self.Model.Refresh(self, ...)
        IF HasAttr("Refresh") THEN refresh(s0, get_Name(s0, s0.Tables[i].obj), result)
        ELSE Raise(s0, "AttributeError")

\* PyTables.Refresh of self.Tables.
PyTables_Refresh(s, result) ==
    LET s0 == Enter(s, "PyTables.Refresh", "")
    IN  \* self._objects[0].Model
        IF Len(s0.Tables) = 0 THEN Raise(s0, "IndexError")
        \* model.Refresh(self, ...)
        ELSE IF HasAttr("Refresh") THEN refresh(s0, "PyTables", result)
        ELSE Raise(s0, "AttributeError")

(****************************** inputs *************************************)
ConnectionStrings == {[Catalog |-> c] : c \in {None, "db2", "other"}}

TableStrings == {"A", "N"}

NewTableNames == {"N"}

Users == {"u1"}

Queries == {"EVALUATE A"}

DataFrame(rows) == [type |-> "DataFrame", rows |-> rows]

\* The query functions given to Query_All: the default, and one with a second "_".
QueryFunctions == {"COUNTROWS(_)", "MAX_(_)"}

\* What a query may return; the rows of $SYSTEM.DISCOVER_JOBS among them.
QueryResults ==
    { DataFrame(<<>>),
      DataFrame(<<[JOB_DESCRIPTION |-> "Backup"]>>),
      DataFrame(<<[JOB_DESCRIPTION |-> "Backup"], [JOB_DESCRIPTION |-> "Process"]>>) }

RefreshResult == DataFrame(<<[JOB_DESCRIPTION |-> "Refresh"]>>)

Change(object, name, old, new) ==
    [NewValue |-> new, Object |-> object, OriginalValue |-> old,
     PropertyName |-> name, PropertyType |-> "String"]

\* What the native Model.SaveChanges may return.
ModelOperationResults ==
    { [Impact |-> NoneObj, XmlaResults |-> <<>>],
      [Impact |-> [type |-> "Impact",
                   PropertyChanges |-> <<Change("c1", "Name", "c1_backup", "c1"),
                                         Change("A", "Name", "A_backup", "A")>>,
                   AddedObjects |-> <<>>, AddedSubtreeRoots |-> <<>>,
                   RemovedObjects |-> <<"t2">>, RemovedSubtreeRoots |-> <<"t3">>],
       XmlaResults |-> <<"x2">>] }

\* pandas DataFrames with distinct column names.
DataFrames ==
    { [columns |-> <<"col1", "col2">>, kinds |-> <<"i", "O">>, rows |-> "{1,\"four\"}"] }

\* The native calls of which one may raise during an operation.
NativeFailures ==
    {"Server.Connect", "Model.SaveChanges", "PyRefresh.run", "Connection.query"}

\* The failure an operation that makes the calls `calls` may meet: None for none.
Failures(calls) == {None} \cup (calls \cap NativeFailures)

(************************* the state machine *******************************)
NoOperation ==
    [op |-> "", args |-> <<>>, failing |-> None, raised |-> None, value |-> NoneObj]

Init ==
    /\ \E server \in Servers :
        /\ Server = [Databases |-> server.Databases, Connected |-> FALSE]
        /\ Model = server.Model
    /\ constructed = FALSE
    /\ Catalog = None
    /\ Database = None
    /\ Tables = <<>>
    /\ Relationships = <<>>
    /\ Partitions = <<>>
    /\ Columns = <<>>
    /\ Measures = <<>>
    /\ Cultures = <<>>
    /\ Effective_Users = <<>>
    /\ connections = <<>>
    /\ detached = <<>>
    /\ log = <<>>
    /\ ret = NoOperation

\* The caller sees the state the operation left, and its value or its exception.
Outcome(s, op, args) ==
    /\ Server' = s.Server
    /\ Model' = s.Model
    /\ Catalog' = s.Catalog
    /\ Database' = s.Database
    /\ Tables' = s.Tables
    /\ Relationships' = s.Relationships
    /\ Partitions' = s.Partitions
    /\ Columns' = s.Columns
    /\ Measures' = s.Measures
    /\ Cultures' = s.Cultures
    /\ Effective_Users' = s.Effective_Users
    /\ connections' = s.connections
    /\ detached' = s.detached
    /\ log' = s.log
    /\ ret' = [op |-> op, args |-> args, failing |-> s.failing, raised |-> s.err,
               value |-> IF s.err = None THEN s.value ELSE NoneObj]

\* Tabular(connection_str): a failed construction leaves no object behind.
Construct ==
    /\ ~constructed
    /\ \E connection_str \in ConnectionStrings, failing \in Failures({"Server.Connect"}) :
        LET s == Tabular__init__(Self(failing), connection_str)
        IN  IF s.err = None
            THEN Outcome(s, "__init__", <<connection_str>>) /\ constructed' = TRUE
            ELSE /\ log' = s.log
                 /\ ret' = [op |-> "__init__", args |-> <<connection_str>>,
                            failing |-> s.failing, raised |-> s.err, value |-> NoneObj]
                 /\ UNCHANGED <<Server, Model, constructed, Catalog, Database, Tables,
                                Relationships, Partitions, Columns, Measures, Cultures,
                                Effective_Users, connections, detached>>

ReloadModelInfo ==
    /\ constructed
    /\ \E failing \in Failures({}) :
        Outcome(reload_model_info(Self(failing)), "reload_model_info", <<>>)
    /\ UNCHANGED constructed

IsProcess ==
    /\ constructed
    /\ \E jobs \in QueryResults, failing \in Failures({"Connection.query"}) :
        Outcome(is_process(Self(failing), jobs), "is_process", <<jobs>>)
    /\ UNCHANGED constructed

Disconnect ==
    /\ constructed
    /\ \E failing \in Failures({}) : Outcome(disconnect(Self(failing)), "disconnect", <<>>)
    /\ UNCHANGED constructed

Reconnect ==
    /\ constructed
    /\ \E failing \in Failures({}) : Outcome(reconnect(Self(failing)), "reconnect", <<>>)
    /\ UNCHANGED constructed

Refresh ==
    /\ constructed
    /\ \E object \in TableStrings, failing \in Failures({"PyRefresh.run"}) :
        Outcome(refresh(Self(failing), object, RefreshResult), "refresh", <<object>>)
    /\ UNCHANGED constructed

SaveChanges ==
    /\ constructed
    /\ \E model_save_results \in ModelOperationResults, failing \in Failures({"Model.SaveChanges"}) :
        Outcome(save_changes(Self(failing), model_save_results), "save_changes", <<>>)
    /\ UNCHANGED constructed

BackupTable ==
    /\ constructed
    /\ \E table_str \in TableStrings, model_save_results \in ModelOperationResults,
          failing \in Failures({"PyRefresh.run", "Model.SaveChanges"}) :
        Outcome(backup_table(Self(failing), table_str, model_save_results, RefreshResult),
                "backup_table", <<table_str>>)
    /\ UNCHANGED constructed

RevertTable ==
    /\ constructed
    /\ \E table_str \in TableStrings, model_save_results \in ModelOperationResults,
          failing \in Failures({"Model.SaveChanges"}) :
        Outcome(revert_table(Self(failing), table_str, model_save_results),
                "revert_table", <<table_str>>)
    /\ UNCHANGED constructed

Query ==
    /\ constructed
    /\ Len(connections) < MaxConnections
    /\ \E query_str \in Queries, effective_user \in Users \cup {None},
          result \in QueryResults, failing \in Failures({"Connection.query"}) :
        Outcome(query(Self(failing), query_str, effective_user, result),
                "query", <<query_str, effective_user>>)
    /\ UNCHANGED constructed

CreateTable ==
    /\ constructed
    /\ \E df \in DataFrames, table_name \in NewTableNames,
          model_save_results \in ModelOperationResults, failing \in Failures({"Model.SaveChanges", "PyRefresh.run"}) :
        Outcome(create_table(Self(failing), df, table_name, model_save_results,
                             RefreshResult),
                "create_table", <<df, table_name>>)
    /\ UNCHANGED constructed

\* self.Tables.Query_All(query_function)
QueryAll ==
    /\ constructed
    /\ \E query_function \in QueryFunctions, failing \in Failures({"Connection.query"}) :
        Outcome(Query_All(Self(failing), query_function, DataFrame(<<>>)),
                "Query_All", <<query_function>>)
    /\ UNCHANGED constructed

\* self.Tables[i].Refresh()
TableRefresh ==
    /\ constructed
    /\ \E i \in 1..Len(Tables), failing \in Failures({"PyRefresh.run"}) :
        Outcome(PyTable_Refresh(Self(failing), i, RefreshResult), "PyTable.Refresh", <<i>>)
    /\ UNCHANGED constructed

\* self.Tables.Refresh()
TablesRefresh ==
    /\ constructed
    /\ \E failing \in Failures({"PyRefresh.run"}) :
        Outcome(PyTables_Refresh(Self(failing), RefreshResult), "PyTables.Refresh", <<>>)
    /\ UNCHANGED constructed

Next ==
    \/ Construct
    \/ ReloadModelInfo
    \/ IsProcess
    \/ Disconnect
    \/ Reconnect
    \/ Refresh
    \/ SaveChanges
    \/ BackupTable
    \/ RevertTable
    \/ Query
    \/ CreateTable
    \/ QueryAll
    \/ TableRefresh
    \/ TablesRefresh

Spec == Init /\ [][Next]_vars

(******************************* claims ************************************)
Wrappers == <<Tables, Relationships, Partitions, Columns, Measures, Cultures>>

\* The six collections as reload_model_info builds them from a native model.
Built(model) ==
    LET tables == [i \in 1..Len(model.Tables) |-> PyTable(model.Tables[i])]
    IN  <<tables,
          [i \in 1..Len(model.Relationships) |-> model.Relationships[i].id],
          Flatten([i \in 1..Len(tables) |-> tables[i].Partitions]),
          Flatten([i \in 1..Len(tables) |-> tables[i].Columns]),
          Flatten([i \in 1..Len(tables) |-> tables[i].Measures]),
          [i \in 1..Len(model.Cultures) |-> model.Cultures[i].Name]>>

\* The positions in a log of the calls of one name.
Indices(l, call) == {i \in 1..Len(l) : l[i].call = call}

\* C1: the six wrapper collections change only in a step that calls
\* reload_model_info (in __init__, directly, or inside save_changes, backup_table,
\* revert_table's save_changes or create_table), and are then what the reload built
\* from the native model; any other change of the native model leaves them alone.
C1_OnlyReloadRebuilds ==
    [][Wrappers' # Wrappers =>
          /\ Indices(log', "reload_model_info") # {}
          /\ ret'.op \in {"__init__", "reload_model_info", "save_changes",
                          "backup_table", "revert_table", "create_table"}
          /\ Wrappers' = Built(Model')]_vars

\* C1 witness: a create_table whose save raised added a table to the native model
\* and called no reload, and the collections are not what a reload would build.
C1_Witness ==
    /\ constructed
    /\ ret.op = "create_table" /\ ret.raised = "NativeError"
    /\ Indices(log, "Tables.Add") # {}
    /\ Indices(log, "reload_model_info") = {}
    /\ Wrappers # Built(Model)

ChangesFields ==
    {"type", "property_changes", "added_objects", "added_subtree_roots",
     "removed_objects", "removed_subtree_Roots", "xmla_results"}

PropertyChangeFields ==
    {"new_value", "object", "original_value", "property_name", "property_type"}

\* C2: a save_changes call makes at most one native SaveChanges call, exactly one
\* when it returns; it returns None when that result has no Impact, and otherwise
\* the six fields of that result, property_changes holding one 5-field entry per
\* native property change in the native order.
C2_SaveRepackagesOneResult ==
    ret.op = "save_changes" =>
        LET saves == Indices(log, "Model.SaveChanges")
        IN  /\ Cardinality(saves) <= 1
            /\ ret.raised = None =>
                /\ Cardinality(saves) = 1
                /\ LET result == log[CHOOSE i \in saves : TRUE].arg
                       impact == result.Impact
                   IN  IF impact = NoneObj THEN ret.value = NoneObj
                       ELSE /\ DOMAIN ret.value = ChangesFields
                            /\ DOMAIN ret.value.property_changes
                                    = DOMAIN impact.PropertyChanges
                            /\ \A i \in DOMAIN impact.PropertyChanges :
                                 LET entry == ret.value.property_changes[i]
                                     change == impact.PropertyChanges[i]
                                 IN  /\ DOMAIN entry = PropertyChangeFields
                                     /\ entry.new_value = change.NewValue
                                     /\ entry.object = change.Object
                                     /\ entry.original_value = change.OriginalValue
                                     /\ entry.property_name = change.PropertyName
                                     /\ entry.property_type = change.PropertyType
                            /\ ret.value.added_objects = impact.AddedObjects
                            /\ ret.value.added_subtree_roots = impact.AddedSubtreeRoots
                            /\ ret.value.removed_objects = impact.RemovedObjects
                            /\ ret.value.removed_subtree_Roots
                                    = impact.RemovedSubtreeRoots
                            /\ ret.value.xmla_results = result.XmlaResults

\* C2 witness: a save that returned two property changes.
C2_Witness ==
    /\ ret.op = "save_changes" /\ ret.raised = None
    /\ ret.value # NoneObj
    /\ Len(ret.value.property_changes) = 2

ReloadedAfterSave(l) ==
    \E i \in Indices(l, "Model.SaveChanges"), j \in Indices(l, "reload_model_info") :
        i < j

\* C3 as claimed: every save_changes call that returns has called reload_model_info
\* after the native SaveChanges, and the collections reflect the native model.
C3_SaveAlwaysReloads ==
    (ret.op = "save_changes" /\ ret.raised = None) =>
        /\ ReloadedAfterSave(log)
        /\ Wrappers = Built(Model)

\* C3 as amended: a save_changes call that returns a value other than None has called
\* reload_model_info after the native SaveChanges, and the collections reflect the
\* native model; a call that returns None has not called reload_model_info.
C3_SaveReloadsWhenImpact ==
    (ret.op = "save_changes" /\ ret.raised = None) =>
        IF ret.value = NoneObj
        THEN Indices(log, "reload_model_info") = {}
        ELSE /\ ReloadedAfterSave(log)
             /\ Wrappers = Built(Model)

\* C3 witness: a save that reported an impact and reloaded.
C3_Witness ==
    /\ ret.op = "save_changes" /\ ret.raised = None
    /\ ret.value # NoneObj
    /\ ReloadedAfterSave(log)

\* A native call that raises is the operation's last call, tried once, and its error
\* is what the caller gets.
RaisesOnce(l, r) ==
    (r.failing # None /\ Indices(l, r.failing) # {}) =>
        /\ r.raised = "NativeError"
        /\ Indices(l, r.failing) = {Len(l)}

\* C4 as claimed: a native error reaches the caller after a single attempt, and no
\* operation other than reconnect itself reconnects.
C4_NoRecoveryAction ==
    /\ RaisesOnce(log, ret)
    /\ ret.op # "reconnect" => Indices(log, "Server.Reconnect") = {}

\* C4 as amended: a native error raised by connect, SaveChanges, refresh or a query
\* reaches the caller after a single attempt; the one recovery action an operation
\* takes on its own is in save_changes, which calls reconnect once, right before the
\* native SaveChanges, when the server reports that it is not connected.
C4_OnlySaveChangesReconnects ==
    [][/\ RaisesOnce(log', ret')
       /\ (ret'.op # "reconnect" /\ Indices(log', "Server.Reconnect") # {}) =>
            /\ Server.Connected = FALSE
            /\ Cardinality(Indices(log', "Server.Reconnect")) = 1
            /\ \A i \in Indices(log', "Server.Reconnect") :
                    /\ i > 1 /\ log'[i - 1].call = "save_changes"
                    /\ i < Len(log') /\ log'[i + 1].call = "Model.SaveChanges"]_vars

\* C4 witness: save_changes on a disconnected server reconnected, and the native
\* SaveChanges then raised.
C4_Witness ==
    /\ ret.op = "save_changes" /\ ret.raised = "NativeError"
    /\ Indices(log, "Server.Reconnect") # {}
    /\ log[Len(log)].call = "Model.SaveChanges"

\* C5 as claimed: a query for a user returns unless the native runtime raises, the
\* connection is then stored under the user, and no user has two connections.
C5_OneConnectionPerUser ==
    /\ (ret.op = "query" /\ ret.args[2] # None /\ ret.raised # "NativeError") =>
            /\ ret.raised = None
            /\ ret.args[2] \in DOMAIN Effective_Users
    /\ \A u \in Users : Cardinality({i \in 1..Len(connections) : connections[i] = u}) <= 1

Children == {"Columns", "Partitions", "Measures", "Hierarchies"}

TableNamed(model, name) == model.Tables[FindIndex(model.Tables, name)]

ChildNames(table, kind) == [i \in 1..Len(table[kind]) |-> table[kind][i].Name]

\* clone is original with "_backup" after its name and after every child's name.
IsBackupOf(clone, original) ==
    /\ clone.Name = original.Name \o "_backup"
    /\ \A kind \in Children :
        /\ Len(clone[kind]) = Len(original[kind])
        /\ \A i \in 1..Len(original[kind]) :
             clone[kind][i] = [original[kind][i] EXCEPT !.Name = @ \o "_backup"]

\* The names of the relationships that start or end at the table.
RelationshipNamesOf(model, table) ==
    {model.Relationships[i].Name : i \in
        {j \in 1..Len(model.Relationships) :
            \/ model.Relationships[j].FromColumn[1] = table.id
            \/ model.Relationships[j].ToColumn[1] = table.id}}

\* C6 as claimed: backup_table(T) for a table T of the model returns True unless the
\* native runtime raises; the model then holds a table T_backup that is T with
\* "_backup" after its name and after the name of every column, partition, measure
\* and hierarchy, and every table and relationship the model held before, T and its
\* own among them, is unchanged.
C6_BackupClonesAndKeeps ==
    [][(/\ ret'.op = "backup_table" /\ ret'.args[1] \in TableNames(Model)
        /\ ret'.raised # "NativeError") =>
          LET T == ret'.args[1]
          IN  /\ ret'.raised = None
              /\ ret'.value = True
              /\ (T \o "_backup") \in TableNames(Model')
              /\ IsBackupOf(TableNamed(Model', T \o "_backup"), TableNamed(Model, T))
              /\ \A i \in 1..Len(Model.Tables) : Model'.Tables[i] = Model.Tables[i]
              /\ \A i \in 1..Len(Model.Relationships) :
                    Model'.Relationships[i] = Model.Relationships[i]]_vars

\* C7 as claimed: backup_table(T) for a table T of the model, then revert_table(T):
\* unless the native runtime raises, both return True and the model is left with a
\* table T and no T_backup, the restored table's columns, partitions, measures,
\* hierarchies and relationships named as those of T were.
C7_RevertRestoresNames ==
    [][(/\ ret.op = "backup_table" /\ ret.args[1] \in TableNames(Model)
        /\ ret.raised # "NativeError"
        /\ ret'.op = "revert_table" /\ ret'.args = ret.args
        /\ ret'.raised # "NativeError") =>
          LET T == ret.args[1]
              before == TableNamed(Model, T)
          IN  /\ ret.raised = None /\ ret.value = True
              /\ ret'.raised = None /\ ret'.value = True
              /\ T \in TableNames(Model')
              /\ (T \o "_backup") \notin TableNames(Model')
              /\ \A kind \in Children :
                    ChildNames(TableNamed(Model', T), kind) = ChildNames(before, kind)
              /\ RelationshipNamesOf(Model', TableNamed(Model', T))
                    = RelationshipNamesOf(Model, before)]_vars

\* C8: a create_table(df, name) that returns has returned True; the model holds one
\* table of that name, with one data column per DataFrame column (same name, same
\* source column, same order) and one M partition built from df; the table was added,
\* then save_changes, then reload_model_info, then one refresh of the new table ran,
\* and the collections reflect the model.
C8_CreateTableBuildsAndRefreshes ==
    (ret.op = "create_table" /\ ret.raised = None) =>
        LET df == ret.args[1]
            name == ret.args[2]
            named == {i \in 1..Len(Model.Tables) : Model.Tables[i].Name = name}
            table == TableNamed(Model, name)
        IN  /\ ret.value = True
            /\ Cardinality(named) = 1
            /\ Len(table.Columns) = Len(df.columns)
            /\ \A i \in 1..Len(df.columns) :
                    /\ table.Columns[i].Name = df.columns[i]
                    /\ table.Columns[i].SourceColumn = df.columns[i]
                    /\ table.Columns[i].Type = "Data"
            /\ Len(table.Partitions) = 1
            /\ table.Partitions[1].SourceType = "M"
            /\ table.Partitions[1].Expression = pd_dataframe_to_m_expression(df)
            /\ \E a \in Indices(log, "Tables.Add"), b \in Indices(log, "save_changes"),
                  c \in Indices(log, "reload_model_info"), d \in Indices(log, "refresh") :
                    /\ a < b /\ b < c /\ c < d
                    /\ Indices(log, "Tables.Add") = {a}
                    /\ Indices(log, "save_changes") = {b}
                    /\ Indices(log, "refresh") = {d}
                    /\ \A r \in Indices(log, "reload_model_info") : b < r /\ r < d
                    /\ log[d].arg = name
                    /\ Indices(log, "PyRefresh.run") = {d + 1}
            /\ Wrappers = Built(Model)

\* C8 witness: table N was created from the two-column DataFrame.
C8_Witness ==
    /\ ret.op = "create_table" /\ ret.raised = None
    /\ "N" \in TableNames(Model)
    /\ Len(TableNamed(Model, "N").Columns) = 2

\* C9: a construction that succeeds has selected the first database the server
\* enumerates when the connection has no catalog, and the database named as the
\* catalog otherwise; when no database matches, construction fails with
\* "Unable to find Database... <catalog>" and leaves no object, and it fails with that
\* error in no other case.
C9_DatabaseSelection ==
    ret.op = "__init__" =>
        LET catalog == ret.args[1].Catalog
            databases == Server.Databases
            matches == {i \in 1..Len(databases) :
                            catalog = None \/ databases[i] = catalog}
        IN  /\ ret.raised = None =>
                /\ constructed
                /\ matches # {}
                /\ Database = IF catalog = None THEN databases[1] ELSE catalog
            /\ (matches = {} /\ ret.raised # "NativeError") =>
                /\ ret.raised = "Unable to find Database... " \o Str(catalog)
                /\ ~constructed
            /\ ret.raised \notin {None, "NativeError"} => matches = {}

\* C9 witness: the catalog names no database of a server that has two.
C9_Witness ==
    /\ ret.op = "__init__"
    /\ ret.raised = "Unable to find Database... other"
    /\ Len(Server.Databases) = 2
    /\ ~constructed

\* C10 as claimed: is_process queries $SYSTEM.DISCOVER_JOBS through query and returns
\* True exactly when a returned row has JOB_DESCRIPTION "Process".
C10_IsProcessReadsJobs ==
    (ret.op = "is_process" /\ ret.raised # "NativeError") =>
        LET jobs == ret.args[1]
        IN  /\ ret.raised = None
            /\ \E i \in Indices(log, "query") :
                    log[i].arg.query = "select * from $SYSTEM.DISCOVER_JOBS"
            /\ ret.value.value =
                    (\E i \in 1..Len(jobs.rows) : jobs.rows[i].JOB_DESCRIPTION = "Process")

\* The names read through the wrappers of self.Tables, in collection order.
WrappedTableNames ==
    [i \in 1..Len(Tables) |->
        get_Name([Model |-> Model, detached |-> detached], Tables[i].obj)]

\* 'EVALUATE UNION(ROW(...), ..., ROW(...))': one ROW per name, in order, naming the
\* table and carrying f over the quoted name, rows separated by commas, one ")".
WellFormedUnion(table_names, f) ==
    "EVALUATE UNION(\n"
        \o Join([i \in 1..Len(table_names) |->
                    "ROW(\"Table\",\"" \o table_names[i] \o "\",\"" \o f \o "\","
                        \o replace(f, "_", "'" \o table_names[i] \o "'") \o ")"],
                ",\n")
        \o ")"

\* C11 as claimed: Query_All(f) returns unless the native runtime raises, for every
\* collection size and every f, and has run exactly one query, the well-formed UNION
\* over the tables of the collection.
C11_QueryAllRunsUnion ==
    (ret.op = "Query_All" /\ ret.raised # "NativeError") =>
        /\ ret.raised = None
        /\ Cardinality(Indices(log, "Connection.query")) = 1
        /\ \A i \in Indices(log, "Connection.query") :
                log[i].arg.query = WellFormedUnion(WrappedTableNames, ret.args[1])

\* C12 as claimed: PyTable.Refresh and PyTables.Refresh return, unless the native
\* runtime raises, what the Tabular object's refresh returns, having run that refresh
\* once, on the table or on the collection, for every collection, an empty one included.
C12_TableRefreshIsRefresh ==
    (ret.op \in {"PyTable.Refresh", "PyTables.Refresh"} /\ ret.raised # "NativeError") =>
        /\ ret.raised = None
        /\ Cardinality(Indices(log, "refresh")) = 1
        /\ Cardinality(Indices(log, "PyRefresh.run")) = 1
        /\ ret.value = RefreshResult

\* Every name of the model: of its tables, of their children, of its relationships.
AllNames(model) ==
    TableNames(model) \cup RelationshipNames(model)
    \cup UNION {Range(ChildNames(model.Tables[i], kind)) :
                    i \in 1..Len(model.Tables), kind \in Children}

NoBackupNames(model) == \A name \in AllNames(model) : ~EndsWith(name, "_backup")

\* The arguments of the calls of one name in a log, in order.
ArgsOf(l, call) ==
    LET calls == SelectSeq(l, LAMBDA e : e.call = call)
    IN  [i \in 1..Len(calls) |-> calls[i].arg]

\* The names of the relationships that start or end at the table named T, in order.
RelationshipsAt(model, T) ==
    LET at == SelectSeq(model.Relationships, LAMBDA r :
                    ToTableName(model, r) = T \/ FromTableName(model, r) = T)
    IN  [i \in 1..Len(at) |-> at[i].Name]

\* Each name added by a call of that name in the log is new when it is added: not a
\* name the collection held before the operation, not one added earlier in it.
AddsNewNames(l, call, held) ==
    \A i \in Indices(l, call) :
        /\ l[i].arg \notin held
        /\ \A j \in Indices(l, call) : j < i => l[j].arg # l[i].arg

\* C13 as claimed: backup_table(T) on a model with a table T and no "_backup" name, no
\* native call failing, returns; it adds the clone under the name T_backup and each cloned
\* relationship under its name followed by "_backup", so the name is already the new
\* one at the Add and the names of the tables, and of the relationships, stay pairwise
\* distinct at every step; the table is added first, then the relationships, then
\* reload_model_info, then one refresh of T_backup, then one save_changes.
C13_BackupRenamesBeforeAdd ==
    [][(/\ ret'.op = "backup_table" /\ ret'.failing = None
        /\ ret'.args[1] \in TableNames(Model)
        /\ NoBackupNames(Model)) =>
          LET T == ret'.args[1]
              l == log'
              tables == Indices(l, "Tables.Add")
              relationships == Indices(l, "Relationships.Add")
              reloads == Indices(l, "reload_model_info")
              refreshes == Indices(l, "refresh")
              saves == Indices(l, "save_changes")
          IN  /\ ret'.raised = None
              /\ ArgsOf(l, "Tables.Add") = <<T \o "_backup">>
              /\ ArgsOf(l, "Relationships.Add")
                    = [i \in 1..Len(RelationshipsAt(Model, T)) |->
                            RelationshipsAt(Model, T)[i] \o "_backup"]
              /\ AddsNewNames(l, "Tables.Add", TableNames(Model))
              /\ AddsNewNames(l, "Relationships.Add", RelationshipNames(Model))
              /\ Cardinality(TableNames(Model')) = Len(Model'.Tables)
              /\ Cardinality(RelationshipNames(Model')) = Len(Model'.Relationships)
              /\ Cardinality(refreshes) = 1 /\ Cardinality(saves) = 1
              /\ ArgsOf(l, "refresh") = <<T \o "_backup">>
              /\ \A a \in tables, b \in relationships : a < b
              /\ \E c \in reloads, d \in refreshes, e \in saves :
                    /\ \A a \in tables \cup relationships : a < c
                    /\ c < d /\ d < e
                    /\ \A r \in reloads : r = c \/ r > e]_vars

====
